---- MODULE Spec2Model ----
(***************************************************************************)
(* Approval-gated text-to-SQL workflow of app/services/sql_service.py:     *)
(* TextToSQLService (pending-query store, generate / approve / reject /    *)
(* execute) over VannaAgentWrapper (extraction of SQL and of rows from the *)
(* agent's component stream).                                              *)
(*                                                                         *)
(* The service's coroutines run on one asyncio event loop: the code        *)
(* between two awaits is one atomic step, and the only awaits are the two  *)
(* agent calls (generate_sql_async, execute_sql_async).  Each coroutine is *)
(* therefore modelled by a "call" step (up to the await) and a "resume"    *)
(* step (from the await to the return or raise).  The loop over the        *)
(* agent's stream touches only locals, so it is folded into the resume.    *)
(*                                                                         *)
(* Text is a sequence of one-character strings, so that split / strip /    *)
(* lower / startswith are computed as Python computes them.                *)
(***************************************************************************)
EXTENDS Integers, Sequences, FiniteSets, Bags, TLC

\* ------------------------------------------------------------------ bounds

\* Coroutines that may be suspended at an agent call at the same time.
MaxTasks == 2
\* Messages sent to the agent over the run.
MaxRequests == 3
\* Query ids uuid4 can hand out over the run.
MaxIds == 2
\* Components in one answer of the agent, where the answers are enumerated.
MaxStream == 3

Tasks == 1..MaxTasks
Ids == 1..MaxIds
\* The ids a caller may pass to resolve: those uuid4 may hand out, and 0,
\* an id no generate call ever returns ("nonexistent-id").
QueryIds == 0..MaxIds
Questions == {"How many customers?", "List all delivered orders"}
\* Readings of pd.Timestamp.now().isoformat(): nothing in the service reads
\* generated_at back, so one reading stands for all.
Timestamps == {"T1"}
\* str(e) of the exceptions the agent's stream may raise.
AgentErrors == {"connection lost"}

\* ------------------------------------------------------------------- text

Whitespace == {" ", "\n"}
\* The backquote character, written ^ here: a TLA+ string cannot hold one.
Backquote == "^"
Fence == <<Backquote, Backquote, Backquote>>
SqlTag == <<"s", "q", "l">>

\* str.lower() of one character.
LowerChar(c) ==
    CASE c = "S" -> "s"
      [] c = "Q" -> "q"
      [] c = "L" -> "l"
      [] c = "A" -> "a"
      [] OTHER -> c

\* str.lower()
Lower(s) == [i \in 1..Len(s) |-> LowerChar(s[i])]

\* s.startswith(p)
StartsWith(s, p) == Len(s) >= Len(p) /\ SubSeq(s, 1, Len(p)) = p

\* The slice s[n:]
DropPrefix(s, n) == IF n >= Len(s) THEN <<>> ELSE SubSeq(s, n + 1, Len(s))

\* p in s
Contains(s, p) ==
    \E i \in 1..(Len(s) + 1) :
        i + Len(p) - 1 <= Len(s) /\ SubSeq(s, i, i + Len(p) - 1) = p

\* str.strip(): leading and trailing whitespace removed.
Strip(s) ==
    LET keep == {i \in 1..Len(s) : s[i] \notin Whitespace}
    IN IF keep = {} THEN <<>>
       ELSE LET lo == CHOOSE i \in keep : \A j \in keep : i <= j
                hi == CHOOSE i \in keep : \A j \in keep : j <= i
            IN SubSeq(s, lo, hi)

\* str.split(sep) for a non-empty sep: the pieces between the
\* non-overlapping occurrences of sep, found left to right.
RECURSIVE Split(_, _)
Split(s, sep) ==
    LET hits == {i \in 1..Len(s) :
                    i + Len(sep) - 1 <= Len(s)
                    /\ SubSeq(s, i, i + Len(sep) - 1) = sep}
    IN IF hits = {} THEN <<s>>
       ELSE LET i == CHOOSE h \in hits : \A k \in hits : h <= k
            IN <<SubSeq(s, 1, i - 1)>> \o Split(DropPrefix(s, i + Len(sep) - 1), sep)

\* ------------------------------------------------- response stream extractor

\* A component's rich_component is a record holding the attributes it has,
\* among metadata (a mapping), content (text) and rows (a list of rows):
\* hasattr(rich_comp, a) is  a \in DOMAIN rich_comp.
HasAttr(rich_comp, a) == a \in DOMAIN rich_comp

\* Truth value of a mapping, a text or a list: non-empty.
Truthy(v) == DOMAIN v # {}

\* The inner loop over the parts of a content holding a fenced block:
\* every part that, stripped and lowered, starts with 'sql' overwrites sql
\* with part[3:].strip().
RECURSIVE ScanParts(_, _)
ScanParts(parts, sql) ==
    IF parts = <<>> THEN sql
    ELSE LET part == Head(parts)
         IN ScanParts(Tail(parts),
                      IF StartsWith(Lower(Strip(part)), SqlTag)
                      THEN Strip(DropPrefix(part, 3))
                      ELSE sql)

ExtractStepLowered(rich_comp, sql) ==
    LET afterMeta ==
            IF HasAttr(rich_comp, "metadata") /\ Truthy(rich_comp.metadata)
               /\ "sql" \in DOMAIN rich_comp.metadata
            THEN Lower(rich_comp.metadata["sql"])
            ELSE sql
    IN IF HasAttr(rich_comp, "content") /\ Truthy(rich_comp.content)
          /\ Contains(Lower(rich_comp.content), Fence \o SqlTag)
       THEN ScanParts(Split(rich_comp.content, Fence), afterMeta)
       ELSE afterMeta

\* One iteration of the loop of _extract_sql_from_agent: the candidate
\* after the component, given the candidate before it.  None and '' are
\* both the empty text: the code only ever tests  not sql.
ExtractStep(rich_comp, sql) ==
    LET afterMeta ==
            IF HasAttr(rich_comp, "metadata") /\ Truthy(rich_comp.metadata)
               /\ "sql" \in DOMAIN rich_comp.metadata
            THEN rich_comp.metadata["sql"]
            ELSE sql
    IN IF HasAttr(rich_comp, "content") /\ Truthy(rich_comp.content)
          /\ Contains(Lower(rich_comp.content), Fence \o SqlTag)
       THEN ScanParts(Split(rich_comp.content, Fence), afterMeta)
       ELSE afterMeta

RECURSIVE ExtractFoldFirstWins(_, _)
ExtractFoldFirstWins(stream, sql) ==
    IF stream = <<>> \/ sql # <<>> THEN sql
    ELSE ExtractFoldFirstWins(Tail(stream), ExtractStep(Head(stream), sql))

\* The loop of _extract_sql_from_agent over the whole stream.
RECURSIVE ExtractFold(_, _)
ExtractFold(stream, sql) ==
    IF stream = <<>> THEN sql
    ELSE ExtractFold(Tail(stream), ExtractStep(Head(stream), sql))

\* _extract_sql_from_agent on the stream the agent answered with: the SQL,
\* or the ValueError raised when no SQL was found.
ValueErrorText == "Agent did not generate SQL. Please try rephrasing your question."
extract_sql_from_agent(stream) ==
    LET sql == ExtractFold(stream, <<>>)
    IN IF sql = <<>>
       THEN [ok |-> FALSE, error |-> ValueErrorText]
       ELSE [ok |-> TRUE, sql |-> sql]

RowsStepExtending(rich_comp, results) ==
    IF HasAttr(rich_comp, "rows") /\ Truthy(rich_comp.rows)
    THEN results \o rich_comp.rows
    ELSE results

\* One iteration of the loop of _execute_and_extract_results.
RowsStep(rich_comp, results) ==
    IF HasAttr(rich_comp, "rows") /\ Truthy(rich_comp.rows)
    THEN rich_comp.rows
    ELSE results

RECURSIVE RowsFold(_, _)
RowsFold(stream, results) ==
    IF stream = <<>> THEN results
    ELSE RowsFold(Tail(stream), RowsStep(Head(stream), results))

\* The rows _execute_and_extract_results returns for the agent's stream.
extract_results(stream) == RowsFold(stream, <<>>)

\* ------------------------------------------------------- messages to the agent

QuestionMark == "\n\nQUESTION: "
ExecutePrefix == "Execute this SQL query:\n\n^^^sql\n"
ExecuteSuffix == "\n^^^"

\* full_message of generate_sql_async.
FullMessage(question, schema_context) ==
    IF schema_context # <<>>
    THEN schema_context \o <<QuestionMark, question>>
    ELSE <<question>>

\* message of _execute_and_extract_results.
ExecuteMessage(sql) == <<ExecutePrefix>> \o sql \o <<ExecuteSuffix>>

IsExecuteRequest(message) == Len(message) >= 1 /\ message[1] = ExecutePrefix

\* ------------------------------------------------------------ schema context

\* schema_parts of _build_schema_context, in the order they are appended:
\* static text only, each part named by what it holds.
SchemaParts ==
    << "DATABASE SCHEMA DOCUMENTATION", "=*60", "documentation",
       "\nTABLE SCHEMAS:", "-*60", "Table: customers", "Table: products",
       "Table: orders", "\nEXAMPLE QUERIES:", "-*60",
       "\nExample 1:", "Question: 1", "SQL: 1",
       "\nExample 2:", "Question: 2", "SQL: 2",
       "\nExample 3:", "Question: 3", "SQL: 3",
       "\nExample 4:", "Question: 4", "SQL: 4",
       "\nExample 5:", "Question: 5", "SQL: 5" >>

\* "\n".join(parts)
RECURSIVE JoinLines(_)
JoinLines(parts) ==
    IF Len(parts) <= 1 THEN parts
    ELSE <<Head(parts), "\n">> \o JoinLines(Tail(parts))

build_schema_context == JoinLines(SchemaParts)

\* ------------------------------------------------------------------ the dict

\* pending_queries is a Python dict: a sequence of <<key, value>> pairs in
\* insertion order, with at most one pair per key.
DictKeys(d) == {d[i][1] : i \in 1..Len(d)}

\* k in d
DictHas(d, k) == k \in DictKeys(d)

DictGetFirst(d, k) == d[1][2]

\* d[k], for a key of d
DictGet(d, k) == d[CHOOSE i \in 1..Len(d) : d[i][1] = k][2]

\* d[k] = v: in place for a key of d, appended for a new key.
DictSet(d, k, v) ==
    IF DictHas(d, k)
    THEN [i \in 1..Len(d) |-> IF d[i][1] = k THEN <<k, v>> ELSE d[i]]
    ELSE Append(d, <<k, v>>)

DictKeep(d, k) == d

DictClear(d, k) == << >>

\* del d[k], for a key of d
RECURSIVE DictDel(_, _)
DictDel(d, k) ==
    IF d = <<>> THEN <<>>
    ELSE IF Head(d)[1] = k THEN Tail(d)
    ELSE <<Head(d)>> \o DictDel(Tail(d), k)

uuid4_repeating(used) == Ids

\* str(uuid.uuid4()): an id that was never handed out before.  The ids are
\* interchangeable, so the lowest unused one stands for any unused one.
uuid4(used) ==
    LET fresh == Ids \ used
    IN {id \in fresh : \A other \in fresh : id <= other}

\* --------------------------------------------------- the agent (environment)

SqlA == <<"a">>
SqlB == <<"S", "E", "L", " ", "b">>
Row1 == [id |-> 1]
Row2 == [id |-> 2]

\* Streams the agent may answer a generation request with.
GenStreams ==
    { \* a status card carrying the SQL in its metadata
      << [metadata |-> [sql |-> SqlA]] >>,
      \* narration, then the SQL in a fenced block
      << [content |-> <<"o", "k">>],
         [content |-> Fence \o SqlTag \o <<"\n">> \o SqlB \o <<"\n">> \o Fence] >>,
      \* narration only: no SQL
      << [content |-> <<"n", "o">>] >>,
      \* nothing at all
      << >> }

\* Streams the agent may answer an execution request with.
ExecStreams ==
    { << [content |-> <<"o", "k">>], [rows |-> <<Row1, Row2>>] >>,
      << [rows |-> <<Row1>>], [rows |-> << >>] >>,
      << [content |-> <<"o", "k">>] >> }

\* ---------------------------------------------------------------------- state

VARIABLES
    pending_queries,   \* self.pending_queries
    is_trained,        \* self.is_trained
    schema_context,    \* self.schema_context
    task,              \* the coroutines suspended at an agent call, with their locals
    agent_log,         \* history: the messages sent to agent.send_message (a bag)
    created,           \* history: id -> the question and sql generate stored under it
    resolved,          \* history: <<query_id, status>> of the results resolve returned (a bag)
    ret                \* what the last step returned or raised to its caller

vars == <<pending_queries, is_trained, schema_context, task, agent_log,
          created, resolved, ret>>

\* The ids uuid4 has handed out.
usedIds == DOMAIN created

Idle == [op |-> "idle"]
NoReturn == [op |-> "none", kind |-> "none"]

\* A value returned to the caller of op; call holds the call's arguments
\* and what the agent answered it.
Return(op, call, value) ==
    [op |-> op, kind |-> "return", call |-> call, value |-> value]

\* An exception raised to the caller of op.
Raise(op, call, type, text) ==
    [op |-> op, kind |-> "raise", call |-> call, type |-> type, text |-> text]

Suspended(t) == task[t].op # "idle"
Generating == {t \in Tasks : task[t].op = "generate"}

\* The slot a new coroutine is suspended in: the lowest free one.
FreeTasks == {t \in Tasks : ~Suspended(t)}
NewTask == CHOOSE t \in FreeTasks : \A u \in FreeTasks : t <= u

\* The agent accepts one more message (the bound of the run).
CanSend == BagCardinality(agent_log) < MaxRequests /\ FreeTasks # {}

Sent(message, query_id) ==
    agent_log (+) SetToBag({[message |-> message, query_id |-> query_id]})

Resolved(query_id, status) == resolved (+) SetToBag({<<query_id, status>>})

Init ==
    /\ pending_queries = << >>
    /\ is_trained = FALSE
    /\ schema_context = << >>
    /\ task = [t \in Tasks |-> Idle]
    /\ agent_log = EmptyBag
    /\ created = << >>
    /\ resolved = EmptyBag
    /\ ret = NoReturn

\* ----------------------------------------------------------------- operations

complete_training_appending ==
    /\ schema_context' = schema_context \o build_schema_context
    /\ is_trained' = TRUE
    /\ ret' = Return("complete_training", << >>, "None")
    /\ UNCHANGED <<pending_queries, task, agent_log, created, resolved>>

\* complete_training (prepare_context)
complete_training ==
    /\ schema_context' = build_schema_context
    /\ is_trained' = TRUE
    /\ ret' = Return("complete_training", << >>, "None")
    /\ UNCHANGED <<pending_queries, task, agent_log, created, resolved>>

\* The pending entry generate_sql_for_approval stores.
PendingEntry(question, sql, now) ==
    [question |-> question, sql |-> sql, status |-> "pending_approval",
     generated_at |-> now]

Explanation ==
    "This SQL will retrieve data from your database. Please review before approving."

\* generate_sql_for_approval, its readiness check failing: the exception.
GenerateNotReady(question) ==
    /\ ret' = Raise("generate", [question |-> question], "Exception",
                    <<"Schema context not prepared. Call complete_training() first.">>)
    /\ UNCHANGED <<pending_queries, is_trained, schema_context, task,
                   agent_log, created, resolved>>

\* generate_sql_for_approval entering generate_sql_async: the message to the
\* agent is sent and the coroutine is suspended.
GenerateSend(question) ==
    /\ CanSend
    /\ Cardinality(usedIds) + Cardinality(Generating) < MaxIds
    /\ task' = [task EXCEPT ![NewTask] = [op |-> "generate", question |-> question]]
    /\ agent_log' = Sent(FullMessage(question, schema_context), 0)
    /\ ret' = NoReturn
    /\ UNCHANGED <<pending_queries, is_trained, schema_context, created, resolved>>

generate_call_unchecked(question) == GenerateSend(question)

\* generate_sql_for_approval (generate_for_approval), up to the await of
\* generate_sql_async: the readiness check, then the message to the agent.
generate_sql_for_approval_call(question) ==
    IF ~is_trained THEN GenerateNotReady(question) ELSE GenerateSend(question)

\* generate_sql_for_approval after a successful extraction: the fresh id,
\* the new pending entry and the view of it returned.
GenerateStore(question, stream, sql) ==
    \E query_id \in uuid4(usedIds), now \in Timestamps :
        /\ pending_queries' =
              DictSet(pending_queries, query_id, PendingEntry(question, sql, now))
        /\ created' = [id \in usedIds \cup {query_id} |->
                          IF id = query_id
                          THEN [question |-> question, sql |-> sql]
                          ELSE created[id]]
        /\ ret' = Return("generate", [question |-> question, stream |-> stream],
                         [query_id |-> query_id, question |-> question,
                          sql |-> sql, explanation |-> Explanation,
                          status |-> "pending_approval"])

\* generate_sql_for_approval after a failed extraction: the except clause
\* wraps the ValueError.
GenerateRaise(question, stream, error) ==
    /\ ret' = Raise("generate", [question |-> question, stream |-> stream],
                    "Exception", <<"Failed to generate SQL: ", error>>)
    /\ UNCHANGED <<pending_queries, created>>

generate_resume_store_first(t, stream) ==
    /\ task[t].op = "generate"
    /\ LET question == task[t].question
           r == extract_sql_from_agent(stream)
       IN IF r.ok
          THEN GenerateStore(question, stream, r.sql)
          ELSE \E query_id \in uuid4(usedIds), now \in Timestamps :
                  /\ pending_queries' =
                        DictSet(pending_queries, query_id,
                                PendingEntry(question, << >>, now))
                  /\ created' = [id \in usedIds \cup {query_id} |->
                                    IF id = query_id
                                    THEN [question |-> question, sql |-> << >>]
                                    ELSE created[id]]
                  /\ ret' = Raise("generate",
                                  [question |-> question, stream |-> stream],
                                  "Exception", <<"Failed to generate SQL: ", r.error>>)
    /\ task' = [task EXCEPT ![t] = Idle]
    /\ UNCHANGED <<is_trained, schema_context, agent_log, resolved>>

\* generate_sql_for_approval from the await on, the agent's stream having
\* ended: the extraction, then either the new pending entry or the
\* wrapped ValueError.
generate_sql_for_approval_resume(t, stream) ==
    /\ task[t].op = "generate"
    /\ LET question == task[t].question
           r == extract_sql_from_agent(stream)
       IN IF r.ok
          THEN GenerateStore(question, stream, r.sql)
          ELSE GenerateRaise(question, stream, r.error)
    /\ task' = [task EXCEPT ![t] = Idle]
    /\ UNCHANGED <<is_trained, schema_context, agent_log, resolved>>

\* generate_sql_for_approval from the await on, the agent's stream having
\* raised e: the except clause wraps it.
generate_sql_for_approval_fails(t, e) ==
    /\ task[t].op = "generate"
    /\ ret' = Raise("generate", [question |-> task[t].question], "Exception",
                    <<"Failed to generate SQL: ", e>>)
    /\ task' = [task EXCEPT ![t] = Idle]
    /\ UNCHANGED <<pending_queries, is_trained, schema_context, agent_log,
                   created, resolved>>

\* The request is abandoned while the coroutine is suspended: the host
\* cancels it, and CancelledError (a BaseException, which  except Exception
\* does not catch) leaves through both coroutines.
cancelled(t) ==
    /\ Suspended(t)
    /\ ret' = Raise(task[t].op,
                    IF task[t].op = "generate"
                    THEN [question |-> task[t].question]
                    ELSE [query_id |-> task[t].query_id,
                          approved |-> task[t].approved, exec |-> "cancelled"],
                    "CancelledError", << >>)
    /\ task' = [task EXCEPT ![t] = Idle]
    /\ UNCHANGED <<pending_queries, is_trained, schema_context, agent_log,
                   created, resolved>>

\* The result of resolve for an id that is not pending.
NotFound == [error |-> <<"Query ID not found">>, status |-> "error"]

\* str(e) of the KeyError of  del self.pending_queries[query_id]
KeyErrorText(query_id) == <<"'", query_id, "'">>

ResolveRaisesKeyError(query_id, approved) ==
    /\ ret' = Raise("resolve",
                    [query_id |-> query_id, approved |-> approved, exec |-> "none"],
                    "KeyError", KeyErrorText(query_id))
    /\ UNCHANGED <<pending_queries, is_trained, schema_context, task,
                   agent_log, created, resolved>>

\* execute_approved_query for an id that is not pending: the error result.
ResolveNotFound(query_id, approved) ==
    /\ ret' = Return("resolve",
                     [query_id |-> query_id, approved |-> approved, exec |-> "none"],
                     NotFound)
    /\ UNCHANGED <<pending_queries, is_trained, schema_context, task,
                   agent_log, created, resolved>>

\* execute_approved_query, the user having rejected the query: the entry is
\* deleted and the rejection returned.
ResolveReject(query_id, approved) ==
    /\ pending_queries' = DictDel(pending_queries, query_id)
    /\ ret' = Return("resolve",
                     [query_id |-> query_id, approved |-> approved, exec |-> "none"],
                     [query_id |-> query_id, status |-> "rejected",
                      message |-> "Query execution cancelled by user"])
    /\ resolved' = Resolved(query_id, "rejected")
    /\ UNCHANGED <<is_trained, schema_context, task, agent_log, created>>

\* execute_approved_query entering execute_sql_async: the message asking the
\* agent to execute the stored SQL is sent and the coroutine is suspended.
ResolveSend(query_id, approved) ==
    LET query_info == DictGet(pending_queries, query_id)
    IN /\ CanSend
       /\ task' = [task EXCEPT ![NewTask] =
                      [op |-> "resolve", query_id |-> query_id,
                       approved |-> approved, query_info |-> query_info,
                       sql |-> query_info.sql]]
       /\ agent_log' = Sent(ExecuteMessage(query_info.sql), query_id)
       /\ ret' = NoReturn
       /\ UNCHANGED <<pending_queries, is_trained, schema_context, created, resolved>>

resolve_call_inverted(query_id, approved) ==
    IF ~DictHas(pending_queries, query_id) THEN ResolveNotFound(query_id, approved)
    ELSE IF approved THEN ResolveReject(query_id, approved)
    ELSE ResolveSend(query_id, approved)

\* execute_approved_query (resolve), up to its first return or to the await
\* of execute_sql_async: the lookup, the rejection, or the execution request.
execute_approved_query_call(query_id, approved) ==
    IF ~DictHas(pending_queries, query_id) THEN ResolveNotFound(query_id, approved)
    ELSE IF ~approved THEN ResolveReject(query_id, approved)
    ELSE ResolveSend(query_id, approved)

resume_keyerror_escapes(t, stream) ==
    /\ task[t].op = "resolve"
    /\ LET query_id == task[t].query_id
           query_info == task[t].query_info
           results == extract_results(stream)
           call == [query_id |-> query_id, approved |-> task[t].approved,
                    exec |-> "completed", stream |-> stream]
       IN IF DictHas(pending_queries, query_id)
          THEN /\ pending_queries' = DictDel(pending_queries, query_id)
               /\ ret' = Return("resolve", call,
                                [query_id |-> query_id,
                                 question |-> query_info.question,
                                 sql |-> task[t].sql,
                                 results |-> results,
                                 result_count |-> Len(results),
                                 status |-> "executed"])
               /\ resolved' = Resolved(query_id, "executed")
          ELSE /\ ret' = Raise("resolve", call, "KeyError", KeyErrorText(query_id))
               /\ UNCHANGED <<pending_queries, resolved>>
    /\ task' = [task EXCEPT ![t] = Idle]
    /\ UNCHANGED <<is_trained, schema_context, agent_log, created>>

\* execute_approved_query from the await on, the agent's stream having
\* ended: the rows, the removal of the entry, the executed result; or the
\* KeyError of the removal, caught by the except clause.
execute_approved_query_resume(t, stream) ==
    /\ task[t].op = "resolve"
    /\ LET query_id == task[t].query_id
           query_info == task[t].query_info
           results == extract_results(stream)
           call == [query_id |-> query_id, approved |-> task[t].approved,
                    exec |-> "completed", stream |-> stream]
       IN IF DictHas(pending_queries, query_id)
          THEN /\ pending_queries' = DictDel(pending_queries, query_id)
               /\ ret' = Return("resolve", call,
                                [query_id |-> query_id,
                                 question |-> query_info.question,
                                 sql |-> task[t].sql,
                                 results |-> results,
                                 result_count |-> Len(results),
                                 status |-> "executed"])
               /\ resolved' = Resolved(query_id, "executed")
          ELSE /\ ret' = Return("resolve", call,
                                [query_id |-> query_id,
                                 error |-> KeyErrorText(query_id),
                                 status |-> "error"])
               /\ resolved' = Resolved(query_id, "error")
               /\ UNCHANGED pending_queries
    /\ task' = [task EXCEPT ![t] = Idle]
    /\ UNCHANGED <<is_trained, schema_context, agent_log, created>>

\* execute_approved_query from the await on, the agent's stream having
\* raised e: the except clause returns the error result.
execute_approved_query_fails(t, e) ==
    /\ task[t].op = "resolve"
    /\ ret' = Return("resolve",
                     [query_id |-> task[t].query_id, approved |-> task[t].approved,
                      exec |-> "failed"],
                     [query_id |-> task[t].query_id, error |-> <<e>>,
                      status |-> "error"])
    /\ resolved' = Resolved(task[t].query_id, "error")
    /\ task' = [task EXCEPT ![t] = Idle]
    /\ UNCHANGED <<pending_queries, is_trained, schema_context, agent_log, created>>

\* {'query_id': qid, **info}
PendingView(qid, info) ==
    [query_id |-> qid, question |-> info.question, sql |-> info.sql,
     status |-> info.status, generated_at |-> info.generated_at]

get_pending_queries_skipping ==
    /\ ret' = Return("list", << >>,
                     [i \in 1..(Len(pending_queries) - 1) |->
                        PendingView(pending_queries[i + 1][1],
                                    pending_queries[i + 1][2])])
    /\ UNCHANGED <<pending_queries, is_trained, schema_context, task, agent_log,
                   created, resolved>>

\* get_pending_queries (list_pending)
get_pending_queries ==
    /\ ret' = Return("list", << >>,
                     [i \in 1..Len(pending_queries) |->
                        PendingView(pending_queries[i][1], pending_queries[i][2])])
    /\ UNCHANGED <<pending_queries, is_trained, schema_context, task, agent_log,
                   created, resolved>>

Next ==
    \/ complete_training
    \/ \E question \in Questions : generate_sql_for_approval_call(question)
    \/ \E t \in Tasks, stream \in GenStreams : generate_sql_for_approval_resume(t, stream)
    \/ \E t \in Tasks, e \in AgentErrors : generate_sql_for_approval_fails(t, e)
    \/ \E t \in Tasks : cancelled(t)
    \/ \E query_id \in QueryIds, approved \in BOOLEAN :
          execute_approved_query_call(query_id, approved)
    \/ \E t \in Tasks, stream \in ExecStreams : execute_approved_query_resume(t, stream)
    \/ \E t \in Tasks, e \in AgentErrors : execute_approved_query_fails(t, e)
    \/ get_pending_queries

Spec == Init /\ [][Next]_vars

\* --------------------------------------------- the extractor on every answer

\* A content holding one fenced block: narration, fence, language tag, the
\* SQL, fence, narration.
Serialize(block) ==
    block.before \o Fence \o block.tag \o block.sql \o Fence \o block.after

SqlC == <<"\n", "c", " ", "d", "\n">>

\* The fenced blocks the agent may put in a content.
FencedBlocks ==
    { [before |-> << >>, tag |-> SqlTag, sql |-> SqlC, after |-> << >>],
      [before |-> <<"o", "k", " ">>, tag |-> <<"S", "Q", "L">>, sql |-> SqlC,
       after |-> <<" ", "o", "k">>],
      [before |-> <<"o", "k", " ">>, tag |-> SqlTag, sql |-> SqlC,
       after |-> <<" ", "S", "Q", "L", " ", "x">>] }

\* The components the agent may answer a generation request with: narration,
\* status cards with and without an sql field (one of them empty), fenced
\* blocks, a card carrying both, and a data frame.
SqlComponents ==
    { [content |-> <<"o", "k">>],
      [metadata |-> [sql |-> SqlA]],
      [metadata |-> [sql |-> SqlB]],
      [metadata |-> [sql |-> << >>]],
      [metadata |-> [status |-> <<"o", "k">>]],
      [metadata |-> [sql |-> SqlA],
       content |-> Serialize([before |-> << >>, tag |-> SqlTag, sql |-> SqlC,
                              after |-> << >>])],
      [rows |-> <<Row1>>] }
    \cup {[content |-> Serialize(block)] : block \in FencedBlocks}

\* The components the agent may answer an execution request with.
RowComponents ==
    { [content |-> <<"o", "k">>],
      [rows |-> <<Row1>>],
      [rows |-> <<Row2, Row1>>],
      [rows |-> << >>] }

\* The streams of at most MaxStream components.
StreamsOf(components) ==
    UNION {[1..n -> components] : n \in 0..MaxStream}

\* One question, asked once: every answer to it is extracted once.
ExtractGenerate ==
    /\ created = << >>
    /\ FreeTasks = Tasks
    /\ generate_sql_for_approval_call("How many customers?")

\* The agent's answer to the generation request, whatever it is.
ExtractSql ==
    \E t \in Generating :
        \E stream \in StreamsOf(SqlComponents) :
            generate_sql_for_approval_resume(t, stream)

\* The approval of the query, no other call being in flight.
ExtractApprove ==
    /\ FreeTasks = Tasks
    /\ \E query_id \in Ids : execute_approved_query_call(query_id, TRUE)

\* The agent's answer to the execution request, whatever it is.
ExtractRows ==
    \E t \in Tasks \ (FreeTasks \cup Generating) :
        \E stream \in StreamsOf(RowComponents) :
            execute_approved_query_resume(t, stream)

ExtractNext ==
    \/ complete_training
    \/ ExtractGenerate
    \/ ExtractSql
    \/ ExtractApprove
    \/ ExtractRows

\* The service answering one question, the agent's answers ranging over
\* every stream of the components above.
ExtractSpec == Init /\ [][ExtractNext]_vars

\* ----------------------------------------------------------------- properties

\* The execution requests among the messages of a log.
ExecuteRequests(log) == {e \in BagToSet(log) : IsExecuteRequest(e.message)}

\* How many execution requests a log holds.
RECURSIVE CountIn(_, _)
CountIn(entries, log) ==
    IF entries = {} THEN 0
    ELSE LET e == CHOOSE x \in entries : TRUE
         IN CopiesIn(e, log) + CountIn(entries \ {e}, log)

ExecCount(log) == CountIn(ExecuteRequests(log), log)

\* How many execution requests a log holds for query_id.
ExecCountFor(log, query_id) ==
    CountIn({e \in ExecuteRequests(log) : e.query_id = query_id}, log)

\* The coroutines a step suspends.
Started(t) == task[t].op = "idle" /\ task'[t].op # "idle"

\* A step that is a call of resolve returning at once, or suspending.
ResolveReturnsAtOnce == ret'.op = "resolve" /\ ret'.call.exec = "none"

\* C1: an execution request is sent to the agent only by the step of a
\* resolve(query_id, approved = true) call whose query_id is pending when
\* the call starts; a step that returns from any operation or starts a
\* generation sends none.
C1_ApprovalGate ==
    [][ /\ \A e \in ExecuteRequests(agent_log') :
              CopiesIn(e, agent_log') > CopiesIn(e, agent_log) =>
                /\ DictHas(pending_queries, e.query_id)
                /\ ret' = NoReturn
                /\ \E t \in Tasks :
                      /\ Started(t)
                      /\ task'[t].op = "resolve"
                      /\ task'[t].approved = TRUE
                      /\ task'[t].query_id = e.query_id
        /\ (ret'.kind # "none" \/ \E t \in Tasks : Started(t) /\ task'[t].op = "generate")
              => ExecCount(agent_log') = ExecCount(agent_log)
      ]_vars

\* C1 witness: an execution request has been sent for a pending query.
C1_Witness ==
    \E t \in Tasks :
        /\ task[t].op = "resolve"
        /\ ExecCountFor(agent_log, task[t].query_id) = 1
        /\ DictHas(pending_queries, task[t].query_id)

\* C2: when the execution call of resolve(Q, approved = true) fails, the
\* call returns {query_id: Q, status: error, error: <message>} and Q is no
\* longer in the pending store.
C2_FailedExecutionConsumesEntry ==
    (ret.op = "resolve" /\ ret.kind = "return" /\ ret.call.exec = "failed") =>
        /\ ret.value.status = "error"
        /\ ret.value.query_id = ret.call.query_id
        /\ "error" \in DOMAIN ret.value
        /\ ~DictHas(pending_queries, ret.call.query_id)

\* C3: two concurrent resolve(Q, approved = true) calls are one resolution:
\* at most one execution request is sent for Q by calls that are in flight
\* together (a call suspended in the execution call has sent its request).
C3_SingleResolution ==
    \A q \in Ids :
        Cardinality({t \in Tasks : task[t].op = "resolve" /\ task[t].query_id = q}) <= 1

\* C4: when the execution call of resolve(Q, approved = true) completes
\* without error, the call returns status executed with Q, the question
\* and sql stored for Q, the rows extracted from the stream and their
\* number, and Q is no longer in the pending store.
C4_ExecutedResult ==
    (ret.op = "resolve" /\ ret.kind = "return" /\ ret.call.exec = "completed") =>
        /\ ret.value.status = "executed"
        /\ ret.value.query_id = ret.call.query_id
        /\ ret.value.question = created[ret.call.query_id].question
        /\ ret.value.sql = created[ret.call.query_id].sql
        /\ ret.value.results = extract_results(ret.call.stream)
        /\ ret.value.result_count = Len(ret.value.results)
        /\ ~DictHas(pending_queries, ret.call.query_id)

\* Q has been returned as executed.
Executed(q) == BagIn(<<q, "executed">>, resolved)

\* C5: once resolve(Q, approved = true) has returned executed, every
\* resolve(Q, approved = true) call that starts later returns the
\* not-found result at once: it is not suspended in an execution call and
\* no further execution request is sent for Q.
C5_NoDoubleExecution ==
    [][ \A q \in Ids : Executed(q) =>
            /\ (ResolveReturnsAtOnce /\ ret'.call.query_id = q /\ ret'.call.approved)
                  => (ret'.kind = "return" /\ ret'.value = NotFound)
            /\ \A t \in Tasks :
                  (Started(t) /\ task'[t].op = "resolve") => task'[t].query_id # q
            /\ ExecCountFor(agent_log', q) = ExecCountFor(agent_log, q)
      ]_vars

\* C5 witness: resolve(Q, true) has just returned not-found for an executed Q.
C5_Witness ==
    /\ ret.op = "resolve"
    /\ ret.kind = "return"
    /\ ret.call.approved
    /\ ret.call.exec = "none"
    /\ ret.value = NotFound
    /\ ret.call.query_id \in Ids
    /\ Executed(ret.call.query_id)

\* The entries of d other than k's, in d's order.
Without(d, k) == SelectSeq(d, LAMBDA entry : entry[1] # k)

\* C6: resolve(Q, approved = false) on a pending Q removes exactly the
\* entry Q, leaves every other entry as it was, sends nothing to the agent
\* and returns {query_id: Q, status: rejected}; the store is empty
\* afterwards if Q was its only entry.
C6_RejectRemovesOnlyQ ==
    [][ (ResolveReturnsAtOnce /\ ~ret'.call.approved
         /\ DictHas(pending_queries, ret'.call.query_id)) =>
            /\ ret'.kind = "return"
            /\ ret'.value.query_id = ret'.call.query_id
            /\ ret'.value.status = "rejected"
            /\ pending_queries' = Without(pending_queries, ret'.call.query_id)
            /\ ~DictHas(pending_queries', ret'.call.query_id)
            /\ (Len(pending_queries) = 1 => pending_queries' = << >>)
            /\ agent_log' = agent_log
            /\ task' = task
      ]_vars

\* C6 witness: a query has just been rejected and another one is still pending.
C6_Witness ==
    /\ ret.op = "resolve"
    /\ ret.kind = "return"
    /\ ret.value.status = "rejected"
    /\ pending_queries # << >>

\* C7: resolve with an id that is not pending, approved or not, returns a
\* result of status error (it raises nothing), leaves the store as it was
\* and sends nothing to the agent.
C7_NotFoundIsAResult ==
    [][ (ResolveReturnsAtOnce /\ ~DictHas(pending_queries, ret'.call.query_id)) =>
            /\ ret'.kind = "return"
            /\ ret'.value.status = "error"
            /\ "error" \in DOMAIN ret'.value
            /\ pending_queries' = pending_queries
            /\ agent_log' = agent_log
            /\ task' = task
      ]_vars

\* C7 witness: resolve has just returned not-found while a query is pending.
C7_Witness ==
    /\ ret.op = "resolve"
    /\ ret.kind = "return"
    /\ ret.value = NotFound
    /\ pending_queries # << >>

\* C8: generate_for_approval called before prepare_context raises, creates
\* no pending entry and sends nothing to the agent.
C8_NotReady ==
    [][ ~is_trained =>
            /\ \A t \in Tasks : ~(Started(t) /\ task'[t].op = "generate")
            /\ ret'.op = "generate" =>
                  /\ ret'.kind = "raise"
                  /\ pending_queries' = pending_queries
                  /\ agent_log' = agent_log
                  /\ task' = task
      ]_vars

\* C8 witness: generate_for_approval has just raised for want of the context.
C8_Witness ==
    /\ ~is_trained
    /\ ret.op = "generate"
    /\ ret.kind = "raise"

\* C9: a generate_for_approval call that does not complete successfully
\* (extraction failure, an error from the agent's stream, abandonment while
\* suspended) creates no pending entry: neither the step that suspends it
\* nor the step that ends it changes the store; and an extraction failure
\* reaches the caller as an exception.
C9_NoEntryOnFailure ==
    [][ /\ (\E t \in Tasks : Started(t) /\ task'[t].op = "generate")
              => pending_queries' = pending_queries
        /\ (ret'.op = "generate" /\ ret'.kind = "raise")
              => pending_queries' = pending_queries
        /\ \A t \in Tasks :
              (task[t].op = "generate" /\ task'[t].op = "idle"
               /\ ret'.kind = "return")
                  => /\ "stream" \in DOMAIN ret'.call
                     /\ extract_sql_from_agent(ret'.call.stream).ok
        /\ (ret'.op = "generate" /\ "stream" \in DOMAIN ret'.call
            /\ ~extract_sql_from_agent(ret'.call.stream).ok)
              => (ret'.kind = "raise" /\ ret'.type = "Exception")
      ]_vars

\* C9 witness: an extraction failure has just been raised to the caller of
\* generate_for_approval while another query is pending.
C9_Witness ==
    /\ ret.op = "generate"
    /\ ret.kind = "raise"
    /\ "stream" \in DOMAIN ret.call
    /\ ret.text = <<"Failed to generate SQL: ", ValueErrorText>>
    /\ pending_queries # << >>

\* C10: a successful generate_for_approval(question) appends exactly one
\* entry, under an id never handed out before, with status
\* pending_approval, the question given and the sql extracted; it returns
\* that id, question and sql, and leaves every other entry as it was.
C10_FreshEntry ==
    [][ (ret'.op = "generate" /\ ret'.kind = "return") =>
            LET id == ret'.value.query_id
            IN /\ id \notin usedIds
               /\ ~DictHas(pending_queries, id)
               /\ Len(pending_queries') = Len(pending_queries) + 1
               /\ SubSeq(pending_queries', 1, Len(pending_queries)) = pending_queries
               /\ pending_queries'[Len(pending_queries')][1] = id
               /\ LET entry == pending_queries'[Len(pending_queries')][2]
                  IN /\ entry.status = "pending_approval"
                     /\ entry.question = ret'.call.question
                     /\ entry.sql = extract_sql_from_agent(ret'.call.stream).sql
                     /\ ret'.value.question = entry.question
                     /\ ret'.value.sql = entry.sql
                     /\ ret'.value.status = "pending_approval"
      ]_vars

\* C10 witness: generate_for_approval has just returned its new entry while
\* an earlier query is still pending.
C10_Witness ==
    /\ ret.op = "generate"
    /\ ret.kind = "return"
    /\ Len(pending_queries) >= 2
    /\ DictHas(pending_queries, ret.value.query_id)

\* The statuses a result of resolve may carry.
ResolveStatuses == {"executed", "rejected", "error"}

\* C11: every entry of the pending store has status pending_approval, and
\* no query id for which resolve has returned executed, rejected or an
\* error carrying that id is still in the store.
C11_StoreInvariant ==
    /\ \A i \in 1..Len(pending_queries) :
          pending_queries[i][2].status = "pending_approval"
    /\ \A r \in BagToSet(resolved) : ~DictHas(pending_queries, r[1])

\* C12 as stated: whatever the id, the approval and the interleaving,
\* resolve raises nothing: it returns a record of status executed,
\* rejected or error.
C12_NeverRaises ==
    ret.op = "resolve" =>
        (ret.kind = "return" /\ ret.value.status \in ResolveStatuses)

\* C12, amended: resolve returns a record of status executed, rejected or
\* error whatever the id, the approval, the interleaving and the outcome
\* of the execution call, unless it is cancelled while suspended in the
\* execution call: then, and only then, CancelledError leaves it.
C12_RaisesOnlyWhenCancelled ==
    ret.op = "resolve" =>
        \/ ret.kind = "return" /\ ret.value.status \in ResolveStatuses
        \/ /\ ret.kind = "raise"
           /\ ret.type = "CancelledError"
           /\ ret.call.exec = "cancelled"

\* C12 witness: the entry having been removed while the call was suspended,
\* the KeyError of the removal has been returned as an error result.
C12_Witness ==
    /\ ret.op = "resolve"
    /\ ret.kind = "return"
    /\ ret.call.exec = "completed"
    /\ ret.value.status = "error"
    /\ ret.value.error = KeyErrorText(ret.call.query_id)

\* ------------------------------------------------- properties of the extractor

\* The component carries an sql metadata field.
CarriesSqlKey(c) ==
    "metadata" \in DOMAIN c /\ c.metadata # << >> /\ "sql" \in DOMAIN c.metadata

\* The component carries a non-empty sql metadata field.
CarriesSql(c) == CarriesSqlKey(c) /\ c.metadata.sql # << >>

\* The component's content carries the marker of a fenced SQL block.
CarriesBlock(c) ==
    "content" \in DOMAIN c /\ Contains(Lower(c.content), Fence \o SqlTag)

\* The last step ended a generation whose answer was the stream
\* ret.call.stream: what it returned or raised is the extractor's outcome.
Extracted == ret.op = "generate" /\ "stream" \in DOMAIN ret.call

\* The positions of a stream that satisfy P.
Positions(stream, P(_)) == {i \in 1..Len(stream) : P(stream[i])}

C15_FailsIffNoCandidate ==
    Extracted =>
        ( ret.kind = "raise" <=>
            \A i \in 1..Len(ret.call.stream) :
                ~CarriesSql(ret.call.stream[i]) /\ ~CarriesBlock(ret.call.stream[i]) )

\* The only SQL signal of the stream is the fenced block, in one content.
OnlySignalIsBlock(stream, block) ==
    /\ Positions(stream, CarriesSqlKey) = {}
    /\ Cardinality(Positions(stream, CarriesBlock)) = 1
    /\ \E i \in 1..Len(stream) : stream[i] = [content |-> Serialize(block)]

\* C16: for a stream whose only SQL signal is a content holding fence,
\* sql tag, S, fence, with or without narration around it, extract_sql
\* returns S trimmed.
C16_FencedRoundTrip ==
    Extracted =>
        \A block \in FencedBlocks :
            OnlySignalIsBlock(ret.call.stream, block) =>
                (ret.kind = "return" /\ ret.value.sql = Strip(block.sql))

\* The rows of the last component carrying a non-empty rows field.
LastRows(stream) ==
    LET R == {i \in 1..Len(stream) :
                 "rows" \in DOMAIN stream[i] /\ stream[i].rows # << >>}
    IN IF R = {} THEN << >>
       ELSE stream[CHOOSE i \in R : \A k \in R : k <= i].rows

\* C17: extract_rows returns the rows of the last component carrying a
\* non-empty rows field, neither joined to earlier rows nor replaced by a
\* later empty rows field, and the empty sequence, without failing, when
\* no component carries rows.
C17_LastRows ==
    (ret.op = "resolve" /\ ret.call.exec = "completed") =>
        /\ ret.kind = "return"
        /\ ret.value.status = "executed"
        /\ ret.value.results = LastRows(ret.call.stream)

\* C17 witness: two data frames, then an empty one: the second one's rows
\* have been returned.
C17_Witness ==
    /\ ret.op = "resolve"
    /\ ret.kind = "return"
    /\ ret.call.exec = "completed"
    /\ ret.call.stream = << [rows |-> <<Row1>>], [rows |-> <<Row2, Row1>>],
                            [rows |-> << >>] >>
    /\ ret.value.results = <<Row2, Row1>>

\* ------------------------------------------- properties of the whole service

\* The records of a listing that are about id.
RecordsOf(listing, id) == {i \in 1..Len(listing) : listing[i].query_id = id}

\* C18: list_pending is a read-only snapshot: it leaves the store
\* unchanged and returns exactly one record per entry of the store, with
\* the entry's key as query_id and the entry's question, sql and status,
\* and no record for an id that is not in the store.
C18_ReadOnlySnapshot ==
    [][ ret'.op = "list" =>
          /\ pending_queries' = pending_queries
          /\ \A i \in 1..Len(pending_queries) :
                LET id == pending_queries[i][1]
                    info == pending_queries[i][2]
                IN /\ Cardinality(RecordsOf(ret'.value, id)) = 1
                   /\ \A r \in RecordsOf(ret'.value, id) :
                         /\ ret'.value[r].question = info.question
                         /\ ret'.value[r].sql = info.sql
                         /\ ret'.value[r].status = info.status
          /\ \A r \in 1..Len(ret'.value) :
                ret'.value[r].query_id \in DictKeys(pending_queries) ]_vars

\* C18 witness: a listing of two pending entries has been returned.
C18_Witness ==
    /\ ret.op = "list"
    /\ Len(pending_queries) = 2
    /\ Len(ret.value) = 2
    /\ ret.value[1].sql # ret.value[2].sql

\* C19: prepare_context is idempotent and never undone: a call leaves the
\* service ready with the context build() produces and the store
\* unchanged; once ready, no step of any operation makes the service
\* unready or changes the context; ready implies context = build().
C19_PrepareIdempotent ==
    /\ [](is_trained => schema_context = build_schema_context)
    /\ [][ /\ is_trained => (is_trained' /\ schema_context' = schema_context)
           /\ ret'.op = "complete_training" =>
                 /\ is_trained'
                 /\ schema_context' = build_schema_context
                 /\ pending_queries' = pending_queries ]_vars

\* C19 witness: prepare_context has returned again after a generation,
\* which needed an earlier call, with an entry pending.
C19_Witness ==
    /\ ret.op = "complete_training"
    /\ created # << >>
    /\ pending_queries # << >>
    /\ is_trained
    /\ schema_context = build_schema_context

\* C20: the sql placed in every execution request for an id is the sql
\* returned by the generation that created the id, and the stored
\* question and sql of a pending entry are those of its creation.
C20_ExecutesWhatWasShown ==
    /\ \A e \in ExecuteRequests(agent_log) :
          /\ e.query_id \in DOMAIN created
          /\ e.message = ExecuteMessage(created[e.query_id].sql)
    /\ \A i \in 1..Len(pending_queries) :
          LET id == pending_queries[i][1]
          IN /\ id \in DOMAIN created
             /\ pending_queries[i][2].question = created[id].question
             /\ pending_queries[i][2].sql = created[id].sql

\* C20 witness: an execution has been requested for an id while another
\* id, created with different SQL, was in the store before it.
C20_Witness ==
    \E e \in ExecuteRequests(agent_log) :
        /\ e.query_id \in DOMAIN created
        /\ \E other \in DOMAIN created :
              /\ other < e.query_id
              /\ other \in DictKeys(pending_queries)
              /\ created[other].sql # created[e.query_id].sql

\* C21: within one component sql metadata takes precedence over content:
\* when the last component of the stream carries both a non-empty sql
\* metadata field and a content holding a fenced SQL block, the candidate
\* after it, which extract_sql returns, is the metadata value and not the
\* block.
C21_MetadataPrecedence ==
    Extracted =>
        LET st == ret.call.stream
        IN (st # << >> /\ CarriesSql(st[Len(st)]) /\ CarriesBlock(st[Len(st)]))
           => (ret.kind = "return" /\ ret.value.sql = st[Len(st)].metadata.sql)

\* The coroutines of resolve(q, approved = true) suspended in the
\* execution call.
Approving(q) ==
    {t \in Tasks : task[t].op = "resolve" /\ task[t].query_id = q /\ task[t].approved}

\* C22: a rejected query is never executed: when resolve(Q, approved =
\* false) has returned rejected while a resolve(Q, approved = true) call
\* on the same pending id was in progress, no execution request for Q has
\* been sent to the agent.
C22_RejectedNeverExecuted ==
    \A q \in Ids :
        (BagIn(<<q, "rejected">>, resolved) /\ Approving(q) # {})
            => ExecCountFor(agent_log, q) = 0

====
